---- MODULE Spec2Model ----
(***************************************************************************)
(* Data-source bindings, page reconciliation and notion sync dispatch of   *)
(* api/controllers/console/datasets/data_source.py.                        *)
(*                                                                         *)
(* The store (bindings, documents) and the task queue are the state; each  *)
(* HTTP handler is one action, translated from its code.  The handlers are *)
(* independent components, so each component is checked under its own      *)
(* specification (SpecLifecycle, SpecConc, SpecCatalog, SpecPages,         *)
(* SpecSync) whose initial states enumerate the rows that component reads. *)
(***************************************************************************)
EXTENDS Integers, Sequences, FiniteSets, TLC

VARIABLES
    bindings,   \* table data_source_bindings, in the store's return order
    documents,  \* table documents, in the store's return order
    now,        \* the wall clock read by datetime.datetime.utcnow()
    queue,      \* requests accepted by document_indexing_sync_task.delay
    last,       \* the most recent whole request and its response
    req,        \* interleaved PATCH requests: position and session object
    seen        \* history: responses an observer noted earlier in the run

vars == <<bindings, documents, now, queue, last, req, seen>>

(***************************************************************************)
(* Bounds of the model.                                                    *)
(***************************************************************************)
MaxBindings == 2
MaxDocs == 2
MaxClock == 2
MaxQueue == 3

Tenants == {"t1", "t2"}
PageIds == {"p1", "p2"}
Actions == {"enable", "disable", "refresh"}
Slots == {"r1", "r2"}

\* The names spec.md gives to the exceptions the handlers raise.
NotFound == "NotFound"
InvalidStateTransition == "ValueError"
UnsupportedSourceType == "ValueError"

\* providers = ["notion"]
providers == <<"notion">>

(***************************************************************************)
(* Rows.  A binding row keeps the columns the handlers read or write; a   *)
(* page of source_info['pages'] is identified by its page_id.             *)
(***************************************************************************)
\* An identifier no row has is always among the identifiers a caller can name.
RequestBindingIds == 1..(MaxBindings + 1)

BindingShapes ==
    { [tenant_id |-> "t1", provider |-> "notion", workspace_id |-> "w1",
       pages |-> <<"p1", "p2">>],
      [tenant_id |-> "t1", provider |-> "notion", workspace_id |-> "w2",
       pages |-> <<"p2", "p1">>],
      [tenant_id |-> "t2", provider |-> "notion", workspace_id |-> "w1",
       pages |-> <<"p1", "p2">>],
      [tenant_id |-> "t1", provider |-> "github", workspace_id |-> "w1",
       pages |-> <<"p1", "p2">>] }

\* source_info['workspace_name'] and source_info['workspace_icon'] of the
\* workspace, and the access_token column: one secret per row.
WorkspaceName(workspace_id) == <<"name", workspace_id>>
WorkspaceIcon(workspace_id) == <<"icon", workspace_id>>
AccessToken(i) == <<"token", i>>

BindingRow(i, shape, disabled) ==
    [id |-> i, tenant_id |-> shape.tenant_id, provider |-> shape.provider,
     disabled |-> disabled, updated_at |-> 0, access_token |-> AccessToken(i),
     workspace_id |-> shape.workspace_id,
     workspace_name |-> WorkspaceName(shape.workspace_id),
     workspace_icon |-> WorkspaceIcon(shape.workspace_id),
     pages |-> shape.pages]

\* Every table of at most MaxBindings rows, each row one of options (a shape
\* and a disabled flag); a row's id is its place in the table.
BindingTables(options) ==
    UNION { { [i \in 1..n |-> BindingRow(i, f[i][1], f[i][2])] :
              f \in [1..n -> options] } : n \in 0..MaxBindings }

\* Table datasets: id -> data_source_type.  "d0" names no dataset.
datasets ==
    [d \in {"d1", "d2", "d3"} |->
        IF d = "d3" THEN "upload_file" ELSE "notion_import"]
RequestDatasetIds == {"d0", "d1", "d2", "d3"}

DocShapes ==
    { [dataset_id |-> "d1", tenant_id |-> "t1", data_source_type |-> "notion_import",
       enabled |-> TRUE, notion_page_id |-> "p1"],
      [dataset_id |-> "d1", tenant_id |-> "t1", data_source_type |-> "notion_import",
       enabled |-> TRUE, notion_page_id |-> "p2"],
      [dataset_id |-> "d1", tenant_id |-> "t1", data_source_type |-> "notion_import",
       enabled |-> FALSE, notion_page_id |-> "p2"],
      [dataset_id |-> "d1", tenant_id |-> "t2", data_source_type |-> "notion_import",
       enabled |-> TRUE, notion_page_id |-> "p2"],
      [dataset_id |-> "d2", tenant_id |-> "t1", data_source_type |-> "notion_import",
       enabled |-> TRUE, notion_page_id |-> "p2"],
      [dataset_id |-> "d3", tenant_id |-> "t1", data_source_type |-> "upload_file",
       enabled |-> TRUE, notion_page_id |-> "none"] }

DocRow(i, shape) ==
    [id |-> i, dataset_id |-> shape.dataset_id, tenant_id |-> shape.tenant_id,
     data_source_type |-> shape.data_source_type, enabled |-> shape.enabled,
     notion_page_id |-> shape.notion_page_id]

\* Every table of at most MaxDocs rows drawn from shapes.
DocTables(shapes) ==
    UNION { { [i \in 1..n |-> DocRow(i, f[i])] : f \in [1..n -> shapes] } :
            n \in 0..MaxDocs }
RequestDocIds == 1..(MaxDocs + 1)

\* None
NoRow == [id |-> 0]

NoRequest == [op |-> "none"]
IdleRequest == [pc |-> "idle"]

(***************************************************************************)
(* DataSourceApi.patch                                                     *)
(***************************************************************************)
\* Mutant: the filter on id is lost, .first() returns the table's first row.
FirstUnfiltered(id) ==
    IF Len(bindings) = 0 THEN [id |-> 0] ELSE bindings[1]

\* DataSourceBinding.query.filter_by(id=binding_id).first()
FirstById(id) ==
    LET hits == SelectSeq(bindings, LAMBDA r : r.id = id)
    IN  IF Len(hits) = 0 THEN NoRow ELSE hits[1]

\* Mutant: updated_at is not assigned on a successful transition.
TransitionSkipTimestamp(obj, action, t) ==
    CASE action = "enable" /\ obj.disabled ->
            [result |-> "success", commit |-> TRUE,
             obj |-> [obj EXCEPT !.disabled = FALSE]]
      [] action = "enable" /\ ~obj.disabled ->
            [result |-> InvalidStateTransition, commit |-> FALSE, obj |-> obj]
      [] action = "disable" /\ ~obj.disabled ->
            [result |-> "success", commit |-> TRUE,
             obj |-> [obj EXCEPT !.disabled = TRUE]]
      [] action = "disable" /\ obj.disabled ->
            [result |-> InvalidStateTransition, commit |-> FALSE, obj |-> obj]
      [] OTHER ->
            [result |-> "success", commit |-> FALSE, obj |-> obj]

\* Mutant: updated_at is assigned before the state check, and committed.
TransitionTouchOnFailure(obj, action, t) ==
    CASE action = "enable" /\ obj.disabled ->
            [result |-> "success", commit |-> TRUE,
             obj |-> [obj EXCEPT !.disabled = FALSE, !.updated_at = t]]
      [] action = "enable" /\ ~obj.disabled ->
            [result |-> "ValueError", commit |-> TRUE,
             obj |-> [obj EXCEPT !.updated_at = t]]
      [] action = "disable" /\ ~obj.disabled ->
            [result |-> "success", commit |-> TRUE,
             obj |-> [obj EXCEPT !.disabled = TRUE, !.updated_at = t]]
      [] action = "disable" /\ obj.disabled ->
            [result |-> "ValueError", commit |-> TRUE,
             obj |-> [obj EXCEPT !.updated_at = t]]
      [] OTHER ->
            [result |-> "success", commit |-> FALSE, obj |-> obj]

\* Mutant: the no-op case is treated as success instead of raising.
TransitionIdempotent(obj, action, t) ==
    CASE action = "enable" ->
            [result |-> "success", commit |-> TRUE,
             obj |-> [obj EXCEPT !.disabled = FALSE, !.updated_at = t]]
      [] action = "disable" ->
            [result |-> "success", commit |-> TRUE,
             obj |-> [obj EXCEPT !.disabled = TRUE, !.updated_at = t]]
      [] OTHER ->
            [result |-> "success", commit |-> FALSE, obj |-> obj]

\* Mutant: an action other than enable and disable is refused.
TransitionRejectUnknown(obj, action, t) ==
    CASE action = "enable" /\ obj.disabled ->
            [result |-> "success", commit |-> TRUE,
             obj |-> [obj EXCEPT !.disabled = FALSE, !.updated_at = t]]
      [] action = "enable" /\ ~obj.disabled ->
            [result |-> "ValueError", commit |-> FALSE, obj |-> obj]
      [] action = "disable" /\ ~obj.disabled ->
            [result |-> "success", commit |-> TRUE,
             obj |-> [obj EXCEPT !.disabled = TRUE, !.updated_at = t]]
      [] action = "disable" /\ obj.disabled ->
            [result |-> "ValueError", commit |-> FALSE, obj |-> obj]
      [] OTHER ->
            [result |-> "ValueError", commit |-> FALSE, obj |-> obj]

\* The branches on action applied to the loaded object: the exception raised
\* or success, whether db.session.commit() is reached, and the object after.
Transition(obj, action, t) ==
    CASE action = "enable" /\ obj.disabled ->
            [result |-> "success", commit |-> TRUE,
             obj |-> [obj EXCEPT !.disabled = FALSE, !.updated_at = t]]
      [] action = "enable" /\ ~obj.disabled ->
            [result |-> InvalidStateTransition, commit |-> FALSE, obj |-> obj]
      [] action = "disable" /\ ~obj.disabled ->
            [result |-> "success", commit |-> TRUE,
             obj |-> [obj EXCEPT !.disabled = TRUE, !.updated_at = t]]
      [] action = "disable" /\ obj.disabled ->
            [result |-> InvalidStateTransition, commit |-> FALSE, obj |-> obj]
      [] OTHER ->
            [result |-> "success", commit |-> FALSE, obj |-> obj]

\* db.session.add(obj); db.session.commit(): the UPDATE of the object's row
\* with the columns the handler assigned.  Nothing in the handler locks the
\* row or conditions the UPDATE on the value it read.
Committed(obj) ==
    [i \in DOMAIN bindings |->
        IF bindings[i].id = obj.id
        THEN [bindings[i] EXCEPT !.disabled = obj.disabled,
                                 !.updated_at = obj.updated_at]
        ELSE bindings[i]]

\* The whole handler, run without another request in between.
Patch(tenant, binding_id, action) ==
    LET obj == FirstById(binding_id)
        out == Transition(obj, action, now)
    IN  /\ IF obj = NoRow
           THEN /\ last' = [op |-> "patch", tenant |-> tenant,
                            binding_id |-> binding_id, action |-> action,
                            result |-> NotFound]
                /\ UNCHANGED bindings
           ELSE /\ last' = [op |-> "patch", tenant |-> tenant,
                            binding_id |-> binding_id, action |-> action,
                            result |-> out.result]
                /\ bindings' = IF out.commit THEN Committed(out.obj) ELSE bindings
        /\ UNCHANGED <<documents, now, queue, req, seen>>

\* Time passes between requests.
Tick ==
    /\ now < MaxClock
    /\ now' = now + 1
    /\ UNCHANGED <<bindings, documents, queue, last, req, seen>>

LifecycleShapes ==
    { s \in BindingShapes : s.provider = "notion" /\ s.pages = <<"p1", "p2">> }

InitLifecycle ==
    /\ bindings \in BindingTables(LifecycleShapes \X BOOLEAN)
    /\ documents = <<>>
    /\ now = 0
    /\ queue = <<>>
    /\ last = NoRequest
    /\ req = [r \in Slots |-> IdleRequest]
    /\ seen = <<>>

NextLifecycle ==
    \/ Tick
    \/ \E tenant \in Tenants, binding_id \in RequestBindingIds, action \in Actions :
          Patch(tenant, binding_id, action)

SpecLifecycle == InitLifecycle /\ [][NextLifecycle]_vars

(***************************************************************************)
(* Two PATCH requests whose store calls interleave.  Each request has its  *)
(* own session: the lookup loads the row into it, and the check and the    *)
(* commit act on that loaded object.                                       *)
(***************************************************************************)
\* data_source_binding = DataSourceBinding.query.filter_by(id=...).first(),
\* and the NotFound raised when it is None.
PatchLookup(r, binding_id, action) ==
    /\ req[r].pc = "idle"
    /\ LET obj == FirstById(binding_id)
       IN  req' = [req EXCEPT ![r] =
                IF obj = NoRow
                THEN [pc |-> "done", binding_id |-> binding_id,
                      action |-> action, result |-> NotFound]
                ELSE [pc |-> "loaded", binding_id |-> binding_id,
                      action |-> action, obj |-> obj]]
    /\ UNCHANGED <<bindings, documents, now, queue, last, seen>>

\* The branches on action and the commit, on the object loaded earlier.
PatchApply(r) ==
    /\ req[r].pc = "loaded"
    /\ LET out == Transition(req[r].obj, req[r].action, now)
       IN  /\ bindings' = IF out.commit THEN Committed(out.obj) ELSE bindings
           /\ req' = [req EXCEPT ![r] =
                        [pc |-> "done", binding_id |-> req[r].binding_id,
                         action |-> req[r].action, result |-> out.result]]
    /\ UNCHANGED <<documents, now, queue, last, seen>>

NextConc ==
    \/ Tick
    \/ \E r \in Slots, binding_id \in RequestBindingIds, action \in Actions :
          PatchLookup(r, binding_id, action)
    \/ \E r \in Slots : PatchApply(r)

SpecConc == InitLifecycle /\ [][NextConc]_vars

(***************************************************************************)
(* Properties of the binding lifecycle.                                    *)
(***************************************************************************)
Exists(id) == \E i \in DOMAIN bindings : bindings[i].id = id
RowIn(table, id) == table[CHOOSE i \in DOMAIN table : table[i].id = id]
Row(id) == RowIn(bindings, id)

SucceededOn(id, action) ==
    /\ last.op = "patch"
    /\ last.binding_id = id
    /\ last.action = action
    /\ last.result = "success"

\* A step that is the whole PATCH handler run for the request, with the given
\* action, that last' records.
PatchStep(action) ==
    /\ last'.op = "patch"
    /\ last'.action = action
    /\ Patch(last'.tenant, last'.binding_id, action)

\* C1: an enable request on a Disabled binding succeeds and leaves the binding
\* Enabled with updated_at set to the current time; an enable request that
\* immediately follows a successful enable of the same binding fails with
\* InvalidStateTransition.
C1_EnableFromDisabled ==
    [][PatchStep("enable") =>
         LET id == last'.binding_id
         IN  /\ (Exists(id) /\ Row(id).disabled) =>
                   /\ last'.result = "success"
                   /\ RowIn(bindings', id).disabled = FALSE
                   /\ RowIn(bindings', id).updated_at = now
             /\ SucceededOn(id, "enable") =>
                   last'.result = InvalidStateTransition]_vars

\* A second enable of a binding has failed after an enable refreshed it.
C1_Witness ==
    /\ last.op = "patch"
    /\ last.action = "enable"
    /\ last.result = InvalidStateTransition
    /\ Exists(last.binding_id)
    /\ ~Row(last.binding_id).disabled
    /\ Row(last.binding_id).updated_at > 0

\* C2: a disable request on an Enabled binding succeeds and leaves the binding
\* Disabled with updated_at set to the current time; a disable request that
\* immediately follows a successful disable of the same binding fails with
\* InvalidStateTransition.
C2_DisableFromEnabled ==
    [][PatchStep("disable") =>
         LET id == last'.binding_id
         IN  /\ (Exists(id) /\ ~Row(id).disabled) =>
                   /\ last'.result = "success"
                   /\ RowIn(bindings', id).disabled = TRUE
                   /\ RowIn(bindings', id).updated_at = now
             /\ SucceededOn(id, "disable") =>
                   last'.result = InvalidStateTransition]_vars

\* A second disable of a binding has failed after a disable refreshed it.
C2_Witness ==
    /\ last.op = "patch"
    /\ last.action = "disable"
    /\ last.result = InvalidStateTransition
    /\ Exists(last.binding_id)
    /\ Row(last.binding_id).disabled
    /\ Row(last.binding_id).updated_at > 0

\* C3: of two interleaved enable requests on the same binding, at most one
\* reports success.
C3_AtMostOneEnableSucceeds ==
    ~ /\ \A r \in Slots :
            /\ req[r].pc = "done"
            /\ req[r].action = "enable"
            /\ req[r].result = "success"
      /\ req["r1"].binding_id = req["r2"].binding_id

\* C4: an enable or disable request on a binding that is already in the
\* requested state fails with InvalidStateTransition, and changes no row of
\* the store.
C4_FailedTransitionChangesNothing ==
    [][\A action \in {"enable", "disable"} :
          (/\ PatchStep(action)
           /\ Exists(last'.binding_id)
           /\ Row(last'.binding_id).disabled = (action = "disable")) =>
            /\ last'.result = InvalidStateTransition
            /\ bindings' = bindings]_vars

\* A disable of a Disabled binding has failed while the clock has moved past
\* the binding's updated_at.
C4_Witness ==
    /\ last.op = "patch"
    /\ last.action = "disable"
    /\ last.result = InvalidStateTransition
    /\ Exists(last.binding_id)
    /\ Row(last.binding_id).disabled
    /\ Row(last.binding_id).updated_at < now

\* C5: a request naming an identifier no binding has fails with NotFound and
\* changes no row of the store.
C5_MissingBindingNotFound ==
    [][\A action \in Actions :
          (PatchStep(action) /\ ~Exists(last'.binding_id)) =>
            /\ last'.result = NotFound
            /\ bindings' = bindings]_vars

\* An enable of a missing identifier was refused while a Disabled binding
\* exists that a misdirected transition could have enabled.
C5_Witness ==
    /\ last.op = "patch"
    /\ last.action = "enable"
    /\ last.result = NotFound
    /\ ~Exists(last.binding_id)
    /\ Len(bindings) > 0
    /\ bindings[1].disabled

\* C14: a transition request changes no binding of a tenant other than the
\* requesting one: every row whose tenant_id differs from the tenant of the
\* request is the same after the request as before.
C14_OtherTenantsUntouched ==
    [][\A action \in Actions :
          PatchStep(action) =>
            \A i \in DOMAIN bindings :
               bindings[i].tenant_id # last'.tenant =>
                  bindings'[i] = bindings[i]]_vars

\* C19: a request on an existing binding with an action that is neither
\* enable nor disable reports success and changes no row of the store.
C19_UnknownActionSucceedsUnchanged ==
    [][\A action \in Actions \ {"enable", "disable"} :
          (PatchStep(action) /\ Exists(last'.binding_id)) =>
            /\ last'.result = "success"
            /\ bindings' = bindings]_vars

\* A refresh of an existing Disabled binding succeeded after time had passed,
\* and the binding still carries its first updated_at.
C19_Witness ==
    /\ last.op = "patch"
    /\ last.action = "refresh"
    /\ last.result = "success"
    /\ Exists(last.binding_id)
    /\ Row(last.binding_id).disabled
    /\ Row(last.binding_id).updated_at < now

(***************************************************************************)
(* DataSourceApi.get                                                       *)
(***************************************************************************)
Range(seq) == { seq[i] : i \in DOMAIN seq }

RECURSIVE Flatten(_)
Flatten(seqs) ==
    IF Len(seqs) = 0 THEN <<>> ELSE Head(seqs) \o Flatten(Tail(seqs))

\* db.session.query(DataSourceBinding).filter(tenant_id == ..., disabled == False).all()
TenantIntegrates(tenant) ==
    SelectSeq(bindings, LAMBDA r : r.tenant_id = tenant /\ ~r.disabled)

\* `if existing_integrates:` on the object filter(...) returns: a filter
\* object defines neither __bool__ nor __len__, so it is true whether or not
\* it yields anything.
FilterObjectTruth(items) == TRUE

\* One pass of `for provider in providers`.
IntegrateEntries(provider, integrates) ==
    LET existing == SelectSeq(integrates, LAMBDA item : item.provider = provider)
    IN  IF FilterObjectTruth(existing)
        THEN [i \in DOMAIN existing |->
                [id |-> existing[i].id, provider |-> provider, is_bound |-> TRUE,
                 disabled |-> existing[i].disabled]]
        ELSE << [id |-> 0, provider |-> provider, is_bound |-> FALSE,
                 disabled |-> FALSE] >>

\* Mutant: listing the integrations stamps the rows it has read.
ListIntegrationsTouch(tenant) ==
    LET integrates == TenantIntegrates(tenant)
        integrate_data ==
            Flatten([k \in DOMAIN providers |->
                        IntegrateEntries(providers[k], integrates)])
    IN  /\ last' = [op |-> "listIntegrations", tenant |-> tenant,
                    result |-> "ok", data |-> integrate_data]
        /\ bindings' = [i \in DOMAIN bindings |->
                          IF bindings[i].tenant_id = tenant
                          THEN [bindings[i] EXCEPT !.updated_at = now]
                          ELSE bindings[i]]
        /\ UNCHANGED <<documents, now, queue, req, seen>>

ListIntegrations(tenant) ==
    LET integrates == TenantIntegrates(tenant)
        integrate_data ==
            Flatten([k \in DOMAIN providers |->
                        IntegrateEntries(providers[k], integrates)])
    IN  /\ last' = [op |-> "listIntegrations", tenant |-> tenant,
                    result |-> "ok", data |-> integrate_data]
        /\ UNCHANGED <<bindings, documents, now, queue, req, seen>>

CatalogShapes == { s \in BindingShapes : s.pages = <<"p1", "p2">> }

InitCatalog ==
    /\ bindings \in BindingTables(CatalogShapes \X BOOLEAN)
    /\ documents = <<>>
    /\ now = 0
    /\ queue = <<>>
    /\ last = NoRequest
    /\ req = [r \in Slots |-> IdleRequest]
    /\ seen = <<>>

NextCatalog == \E tenant \in Tenants : ListIntegrations(tenant)

SpecCatalog == InitCatalog /\ [][NextCatalog]_vars

\* C6: for each configured provider, listIntegrations returns exactly one
\* unbound placeholder when the tenant has no non-disabled binding for it,
\* and otherwise one bound entry per such binding and no placeholder.  (No
\* action of SpecCatalog changes the store, so the response is compared with
\* the store as it is.)
C6_PlaceholderOrBoundEntries ==
    last.op = "listIntegrations" =>
        \A k \in DOMAIN providers :
            LET n == Cardinality({ i \in DOMAIN bindings :
                        /\ bindings[i].tenant_id = last.tenant
                        /\ bindings[i].provider = providers[k]
                        /\ ~bindings[i].disabled })
                bound == Cardinality({ i \in DOMAIN last.data :
                        last.data[i].provider = providers[k] /\ last.data[i].is_bound })
                unbound == Cardinality({ i \in DOMAIN last.data :
                        last.data[i].provider = providers[k] /\ ~last.data[i].is_bound })
            IN  IF n = 0 THEN unbound = 1 /\ bound = 0
                         ELSE unbound = 0 /\ bound = n

(***************************************************************************)
(* DataSourceNotionListApi.get                                             *)
(***************************************************************************)
\* DatasetService.get_dataset(dataset_id)
GetDataset(dataset_id) ==
    IF dataset_id \in DOMAIN datasets
    THEN [id |-> dataset_id, data_source_type |-> datasets[dataset_id]]
    ELSE NoRow

\* Mutant: the enabled=True filter is missing.
ExistPageIdsAnyEnabled(tenant, dataset_id) ==
    LET docs == SelectSeq(documents, LAMBDA d :
                    /\ d.dataset_id = dataset_id
                    /\ d.tenant_id = tenant
                    /\ d.data_source_type = "notion_import")
    IN  [i \in DOMAIN docs |-> docs[i].notion_page_id]

\* Mutant: the page ids are kept in the module-level cache under the tenant
\* alone, so a call is answered with the ids of the tenant's previous call.
ExistPageIdsCachedByTenant(tenant, dataset_id) ==
    LET key == IF /\ last.op = "listImportablePages"
                  /\ last.tenant = tenant
                  /\ last.result = "ok"
                  /\ last.dataset_id # ""
               THEN last.dataset_id ELSE dataset_id
        docs == SelectSeq(documents, LAMBDA d :
                    /\ d.dataset_id = key
                    /\ d.tenant_id = tenant
                    /\ d.data_source_type = "notion_import"
                    /\ d.enabled)
    IN  [i \in DOMAIN docs |-> docs[i].notion_page_id]

\* Document.query.filter_by(dataset_id, tenant_id, data_source_type, enabled)
\* .all(), and the notion_page_id of each document's data_source_info.
ExistPageIds(tenant, dataset_id) ==
    LET docs == SelectSeq(documents, LAMBDA d :
                    /\ d.dataset_id = dataset_id
                    /\ d.tenant_id = tenant
                    /\ d.data_source_type = "notion_import"
                    /\ d.enabled)
    IN  [i \in DOMAIN docs |-> docs[i].notion_page_id]

\* Mutant: the disabled=False filter is missing.
NotionBindingsAnyDisabled(tenant) ==
    SelectSeq(bindings, LAMBDA r :
        r.tenant_id = tenant /\ r.provider = "notion")

\* DataSourceBinding.query.filter_by(tenant_id, provider='notion', disabled=False).all()
NotionBindings(tenant) ==
    SelectSeq(bindings, LAMBDA r :
        r.tenant_id = tenant /\ r.provider = "notion" /\ ~r.disabled)

\* Mutant: the pages already bound are filtered out of the list.
AnnotatedPagesFilterBound(pages, exist_page_ids) ==
    LET unbound == SelectSeq(pages, LAMBDA p : p \notin Range(exist_page_ids))
    IN  [i \in DOMAIN unbound |-> [page_id |-> unbound[i], is_bound |-> FALSE]]

\* `for page in pages`: page['is_bound'] = page['page_id'] in exist_page_ids
AnnotatedPages(pages, exist_page_ids) ==
    [i \in DOMAIN pages |->
        [page_id |-> pages[i], is_bound |-> pages[i] \in Range(exist_page_ids)]]

\* The page dicts of a binding as loaded from its source_info column.
LoadedPages(pages) == [i \in DOMAIN pages |-> [page_id |-> pages[i]]]

\* source_info = data_source_binding.source_info; pages = source_info['pages']
\* names the list the loaded object holds, it is no copy: the loop assigns
\* page['is_bound'] on the loaded object's own page dicts.  Nothing is
\* committed, so the row in the store keeps its source_info.
AnnotatedBinding(binding, exist_page_ids) ==
    [id |-> binding.id,
     pages |-> AnnotatedPages(binding.pages, exist_page_ids)]

\* Mutant: the bindings are read first and the empty answer is given before
\* the dataset is looked at.
PreImportResponseBindingsFirst(tenant, dataset_id) ==
    LET dataset == GetDataset(dataset_id)
        data_source_bindings == NotionBindings(tenant)
        exist_page_ids ==
            IF dataset_id # "" THEN ExistPageIds(tenant, dataset_id) ELSE <<>>
        loaded ==
            [i \in DOMAIN data_source_bindings |->
                AnnotatedBinding(data_source_bindings[i], exist_page_ids)]
        pre_import_info_list ==
            [i \in DOMAIN data_source_bindings |->
                [workspace_name |-> data_source_bindings[i].workspace_name,
                 workspace_icon |-> data_source_bindings[i].workspace_icon,
                 workspace_id |-> data_source_bindings[i].workspace_id,
                 pages |-> loaded[i].pages]]
    IN  IF data_source_bindings = <<>>
        THEN [result |-> "ok", notion_info |-> <<>>, session |-> <<>>]
        ELSE IF dataset_id # "" /\ dataset = NoRow
        THEN [result |-> NotFound, notion_info |-> <<>>, session |-> <<>>]
        ELSE IF dataset_id # "" /\ dataset.data_source_type # "notion_import"
        THEN [result |-> UnsupportedSourceType, notion_info |-> <<>>,
              session |-> <<>>]
        ELSE [result |-> "ok", notion_info |-> pre_import_info_list,
              session |-> loaded]

\* What the handler returns or raises, and the binding objects its session
\* holds when it ends.  dataset_id = "" is the request without a dataset_id
\* argument.
PreImportResponse(tenant, dataset_id) ==
    LET dataset == GetDataset(dataset_id)
        exist_page_ids ==
            IF dataset_id # "" THEN ExistPageIds(tenant, dataset_id) ELSE <<>>
        data_source_bindings == NotionBindings(tenant)
        loaded ==
            [i \in DOMAIN data_source_bindings |->
                AnnotatedBinding(data_source_bindings[i], exist_page_ids)]
        pre_import_info_list ==
            [i \in DOMAIN data_source_bindings |->
                [workspace_name |-> data_source_bindings[i].workspace_name,
                 workspace_icon |-> data_source_bindings[i].workspace_icon,
                 workspace_id |-> data_source_bindings[i].workspace_id,
                 pages |-> loaded[i].pages]]
    IN  IF dataset_id # "" /\ dataset = NoRow
        THEN [result |-> NotFound, notion_info |-> <<>>, session |-> <<>>]
        ELSE IF dataset_id # "" /\ dataset.data_source_type # "notion_import"
        THEN [result |-> UnsupportedSourceType, notion_info |-> <<>>,
              session |-> <<>>]
        ELSE [result |-> "ok", notion_info |-> pre_import_info_list,
              session |-> loaded]

ListImportablePages(tenant, dataset_id) ==
    LET response == PreImportResponse(tenant, dataset_id)
    IN  /\ last' = [op |-> "listImportablePages", tenant |-> tenant,
                    dataset_id |-> dataset_id, result |-> response.result,
                    notion_info |-> response.notion_info,
                    session |-> response.session]
        /\ UNCHANGED <<bindings, documents, now, queue, req, seen>>

PagesBindingOptions ==
    (BindingShapes \X {FALSE})
        \cup ({ s \in BindingShapes : s.workspace_id = "w2" } \X {TRUE})

InitPages ==
    /\ bindings \in BindingTables(PagesBindingOptions)
    /\ documents \in DocTables(DocShapes)
    /\ now = 0
    /\ queue = <<>>
    /\ last = NoRequest
    /\ req = [r \in Slots |-> IdleRequest]
    /\ seen = <<>>

NextPages ==
    \E tenant \in Tenants, dataset_id \in RequestDatasetIds \cup {""} :
        ListImportablePages(tenant, dataset_id)

SpecPages == InitPages /\ [][NextPages]_vars

\* The dataset holds an enabled notion-import document of the tenant that
\* originates from the page.
Imported(tenant, dataset_id, page_id) ==
    \E i \in DOMAIN documents :
        /\ documents[i].dataset_id = dataset_id
        /\ documents[i].tenant_id = tenant
        /\ documents[i].data_source_type = "notion_import"
        /\ documents[i].enabled
        /\ documents[i].notion_page_id = page_id

\* C7: a successful listImportablePages(tenant, dataset) returns every page
\* of every non-disabled notion binding of the tenant, and a returned page has
\* is_bound = TRUE exactly when the dataset holds an enabled notion-import
\* document of that tenant originating from that page; without a dataset no
\* page is bound.  (No action of SpecPages changes the store.)
C7_BoundIffImported ==
    (last.op = "listImportablePages" /\ last.result = "ok") =>
        /\ \A b \in DOMAIN bindings :
              (/\ bindings[b].tenant_id = last.tenant
               /\ bindings[b].provider = "notion"
               /\ ~bindings[b].disabled) =>
                 \E v \in DOMAIN last.notion_info :
                    /\ last.session[v].id = bindings[b].id
                    /\ [i \in DOMAIN last.notion_info[v].pages |->
                            last.notion_info[v].pages[i].page_id] = bindings[b].pages
        /\ \A v \in DOMAIN last.notion_info :
              \A i \in DOMAIN last.notion_info[v].pages :
                 LET page == last.notion_info[v].pages[i]
                 IN  page.is_bound = Imported(last.tenant, last.dataset_id, page.page_id)

\* One view holds an imported page after a page that is not imported, while
\* the dataset also holds a document of that other page that does not count.
C7_Witness ==
    /\ last.op = "listImportablePages"
    /\ last.result = "ok"
    /\ \E v \in DOMAIN last.notion_info :
          LET pages == last.notion_info[v].pages
          IN  /\ Len(pages) = 2
              /\ ~pages[1].is_bound
              /\ pages[2].is_bound
              /\ \E i \in DOMAIN documents :
                    /\ documents[i].dataset_id = last.dataset_id
                    /\ documents[i].notion_page_id = pages[1].page_id

\* C11: after a listImportablePages call, every binding object the call
\* loaded holds the page entries of its stored source_info, without an
\* is_bound annotation.
C11_LoadedBindingsNotAnnotated ==
    last.op = "listImportablePages" =>
        \A k \in DOMAIN last.session :
            last.session[k].pages = LoadedPages(Row(last.session[k].id).pages)

\* The bindings a listImportablePages call of the tenant is to show.
Eligible(tenant) ==
    { i \in DOMAIN bindings :
        /\ bindings[i].tenant_id = tenant
        /\ bindings[i].provider = "notion"
        /\ ~bindings[i].disabled }

\* C13: listImportablePages with a dataset_id fails with NotFound when no
\* such dataset exists and with UnsupportedSourceType when the dataset is not
\* a notion import, whatever bindings the tenant has, and in both cases no
\* binding has been loaded.
C13_DatasetCheckedBeforeBindings ==
    (last.op = "listImportablePages" /\ last.dataset_id # "") =>
        /\ last.dataset_id \notin DOMAIN datasets =>
              last.result = NotFound /\ last.session = <<>>
        /\ (/\ last.dataset_id \in DOMAIN datasets
            /\ datasets[last.dataset_id] # "notion_import") =>
              last.result = UnsupportedSourceType /\ last.session = <<>>

\* A tenant without any binding asks for the pages of a dataset that is not a
\* notion import, while the store holds a binding of another tenant.
C13_Witness ==
    /\ last.op = "listImportablePages"
    /\ last.result = UnsupportedSourceType
    /\ bindings # <<>>
    /\ \A i \in DOMAIN bindings : bindings[i].tenant_id # last.tenant

\* C15: a listImportablePages call that passes the dataset check succeeds;
\* a successful call returns exactly one view per non-disabled notion binding
\* of the tenant and a view of no other binding, so that without such a
\* binding it returns the empty sequence.
C15_OneViewPerEligibleBinding ==
    last.op = "listImportablePages" =>
        /\ (\/ last.dataset_id = ""
            \/ /\ last.dataset_id \in DOMAIN datasets
               /\ datasets[last.dataset_id] = "notion_import") =>
              last.result = "ok"
        /\ last.result = "ok" =>
              /\ Len(last.notion_info) = Cardinality(Eligible(last.tenant))
              /\ Len(last.session) = Len(last.notion_info)
              /\ { last.session[k].id : k \in DOMAIN last.session }
                    = Eligible(last.tenant)
        /\ (last.result = "ok" /\ Eligible(last.tenant) = {}) =>
              last.notion_info = <<>>

\* One view is returned while the store also holds a disabled notion binding
\* of the same tenant.
C15_Witness ==
    /\ last.op = "listImportablePages"
    /\ last.result = "ok"
    /\ Len(last.notion_info) = 1
    /\ \E i \in DOMAIN bindings :
          /\ bindings[i].tenant_id = last.tenant
          /\ bindings[i].provider = "notion"
          /\ bindings[i].disabled

Observe ==
    /\ last.op = "listImportablePages"
    /\ Len(seen) < 2
    /\ Len(seen) = 1 => seen[1] # last
    /\ seen' = Append(seen, last)
    /\ UNCHANGED <<bindings, documents, now, queue, last, req>>

RepeatBindingOptions ==
    { s \in BindingShapes : s.tenant_id = "t1" /\ s.provider = "notion" } \X {FALSE}
RepeatDocShapes ==
    { s \in DocShapes : s.tenant_id = "t1" /\ s.enabled
                        /\ s.notion_page_id = (IF s.dataset_id = "d1" THEN "p1" ELSE "p2") }

InitRepeat ==
    /\ bindings \in BindingTables(RepeatBindingOptions)
    /\ documents \in DocTables(RepeatDocShapes)
    /\ now = 0
    /\ queue = <<>>
    /\ last = NoRequest
    /\ req = [r \in Slots |-> IdleRequest]
    /\ seen = <<>>

NextRepeat ==
    \/ \E tenant \in Tenants, dataset_id \in RequestDatasetIds \cup {""} :
          ListImportablePages(tenant, dataset_id)
    \/ Observe

SpecRepeat == InitRepeat /\ [][NextRepeat]_vars

DispatchFailure == "DispatchFailure"

\* DocumentService.get_document_by_dataset_id(dataset_id): every document of
\* the dataset, enabled or not.
GetDocumentByDatasetId(dataset_id) ==
    SelectSeq(documents, LAMBDA d : d.dataset_id = dataset_id)

\* DocumentService.get_document(dataset_id, document_id)
GetDocument(dataset_id, document_id) ==
    LET hits == SelectSeq(documents, LAMBDA d :
                    d.id = document_id /\ d.dataset_id = dataset_id)
    IN  IF Len(hits) = 0 THEN NoRow ELSE hits[1]

\* document_indexing_sync_task.delay(...): the runner takes the request onto
\* its queue, or rejects it and delay raises.  accepted is how many of the
\* requests handed to it in order the runner takes before it rejects one.
Delivered(requests, accepted) == SubSeq(requests, 1, accepted)

\* Mutant: only the enabled documents are handed to the runner.
SyncRequestsEnabledOnly(dataset_id, docs) ==
    LET enabled == SelectSeq(docs, LAMBDA d : d.enabled)
    IN  [i \in DOMAIN enabled |-> <<dataset_id, enabled[i].id>>]

\* Mutant: a document whose request is already on the queue is skipped.
SyncRequestsSkipQueued(dataset_id, docs) ==
    LET fresh == SelectSeq(docs, LAMBDA d :
                    \A k \in DOMAIN queue : queue[k] # <<dataset_id, d.id>>)
    IN  [i \in DOMAIN fresh |-> <<dataset_id, fresh[i].id>>]

\* `for document in documents: delay(dataset_id_str, document.id)`: the
\* requests the loop hands over when no delay raises.
SyncRequests(dataset_id, docs) ==
    [i \in DOMAIN docs |-> <<dataset_id, docs[i].id>>]

\* The loop stops at the first delay that raises; the exception leaves the
\* handler.
SyncDataset(dataset_id, accepted) ==
    LET dataset == GetDataset(dataset_id)
        requests == SyncRequests(dataset_id, GetDocumentByDatasetId(dataset_id))
        n == Len(requests)
    IN  /\ IF dataset = NoRow
           THEN /\ accepted = 0
                /\ last' = [op |-> "syncDataset", dataset_id |-> dataset_id,
                            document_id |-> 0, result |-> NotFound,
                            attempts |-> 0, rejected |-> 0]
                /\ UNCHANGED queue
           ELSE /\ accepted \in 0..n
                /\ Len(queue) + accepted <= MaxQueue
                /\ queue' = queue \o Delivered(requests, accepted)
                /\ last' = [op |-> "syncDataset", dataset_id |-> dataset_id,
                            document_id |-> 0,
                            result |-> IF accepted = n THEN "ok" ELSE DispatchFailure,
                            attempts |-> IF accepted = n THEN n ELSE accepted + 1,
                            rejected |-> IF accepted = n THEN 0 ELSE 1]
        /\ UNCHANGED <<bindings, documents, now, req, seen>>

\* Mutant: the check of the document is missing.
SyncDocumentGuardDatasetOnly(dataset, document) ==
    IF dataset = NoRow THEN "NotFound" ELSE "dispatch"

\* The two `is None` checks of DataSourceNotionDocumentSyncApi.get.
SyncDocumentGuard(dataset, document) ==
    IF dataset = NoRow THEN NotFound
    ELSE IF document = NoRow THEN NotFound
    ELSE "dispatch"

SyncDocument(dataset_id, document_id, accepted) ==
    LET dataset == GetDataset(dataset_id)
        document == GetDocument(dataset_id, document_id)
        guard == SyncDocumentGuard(dataset, document)
    IN  /\ IF guard = NotFound
           THEN /\ accepted = 0
                /\ last' = [op |-> "syncDocument", dataset_id |-> dataset_id,
                            document_id |-> document_id, result |-> NotFound,
                            attempts |-> 0, rejected |-> 0]
                /\ UNCHANGED queue
           ELSE /\ accepted \in 0..1
                /\ Len(queue) + accepted <= MaxQueue
                /\ queue' = queue \o Delivered(<< <<dataset_id, document_id>> >>,
                                               accepted)
                /\ last' = [op |-> "syncDocument", dataset_id |-> dataset_id,
                            document_id |-> document_id,
                            result |-> IF accepted = 1 THEN "ok" ELSE DispatchFailure,
                            attempts |-> 1, rejected |-> 1 - accepted]
        /\ UNCHANGED <<bindings, documents, now, req, seen>>

SyncDocShapes ==
    { s \in DocShapes : s.tenant_id = "t1" /\ s.notion_page_id # "p1" }

InitSync ==
    /\ bindings = <<>>
    /\ documents \in DocTables(SyncDocShapes)
    /\ now = 0
    /\ queue = <<>>
    /\ last = NoRequest
    /\ req = [r \in Slots |-> IdleRequest]
    /\ seen = <<>>

NextSync ==
    \/ \E dataset_id \in RequestDatasetIds, accepted \in 0..MaxDocs :
          SyncDataset(dataset_id, accepted)
    \/ \E dataset_id \in RequestDatasetIds, document_id \in RequestDocIds,
          accepted \in 0..1 :
          SyncDocument(dataset_id, document_id, accepted)

SpecSync == InitSync /\ [][NextSync]_vars

DocsOf(dataset_id) ==
    { i \in DOMAIN documents : documents[i].dataset_id = dataset_id }

\* What a step appended to the queue.
Added == SubSeq(queue', Len(queue) + 1, Len(queue'))
Grown == Len(queue') >= Len(queue) /\ SubSeq(queue', 1, Len(queue)) = queue

\* A step that is the whole handler run for the request that last' records.
SyncDatasetStep ==
    /\ last'.op = "syncDataset"
    /\ SyncDataset(last'.dataset_id, Len(queue') - Len(queue))

SyncDocumentStep ==
    /\ last'.op = "syncDocument"
    /\ SyncDocument(last'.dataset_id, last'.document_id, Len(queue') - Len(queue))

\* C8: a syncDataset on an existing dataset whose hand-offs the runner all
\* accepts appends to the queue exactly one request (dataset_id, document_id)
\* for each document of the dataset, enabled or not, and nothing else.
C8_OneRequestPerDocument ==
    [][(/\ SyncDatasetStep
        /\ last'.dataset_id \in DOMAIN datasets
        /\ last'.result = "ok") =>
          LET dataset_id == last'.dataset_id
          IN  /\ Grown
              /\ Len(Added) = Cardinality(DocsOf(dataset_id))
              /\ \A i \in DocsOf(dataset_id) :
                    Cardinality({ k \in DOMAIN Added :
                        Added[k] = <<dataset_id, documents[i].id>> }) = 1]_vars

\* A syncDataset has queued the requests of a dataset that holds an enabled
\* and a disabled document.
C8_Witness ==
    /\ last.op = "syncDataset"
    /\ last.result = "ok"
    /\ \E i, j \in DocsOf(last.dataset_id) :
          /\ documents[i].enabled
          /\ ~documents[j].enabled
          /\ <<last.dataset_id, documents[i].id>> \in Range(queue)
          /\ <<last.dataset_id, documents[j].id>> \in Range(queue)

\* C9: syncDocument fails with NotFound and queues nothing when the dataset
\* does not exist or holds no document of that id, and otherwise hands exactly
\* one request to the runner, which is the one request queued when the runner
\* accepts it; syncDataset on a dataset that does not exist fails with
\* NotFound and queues nothing.
C9_NotFoundQueuesNothing ==
    [][/\ SyncDocumentStep =>
            LET dataset_id == last'.dataset_id
                document_id == last'.document_id
            IN  IF \/ dataset_id \notin DOMAIN datasets
                   \/ ~\E i \in DocsOf(dataset_id) : documents[i].id = document_id
                THEN last'.result = NotFound /\ queue' = queue
                ELSE /\ last'.attempts = 1
                     /\ last'.result \in {"ok", DispatchFailure}
                     /\ last'.result = "ok" =>
                           queue' = Append(queue, <<dataset_id, document_id>>)
                     /\ last'.result = DispatchFailure => queue' = queue
       /\ (SyncDatasetStep /\ last'.dataset_id \notin DOMAIN datasets) =>
             last'.result = NotFound /\ queue' = queue]_vars

\* A syncDocument naming an existing dataset and a document of another
\* dataset was refused and queued nothing.
C9_Witness ==
    /\ last.op = "syncDocument"
    /\ last.result = NotFound
    /\ last.dataset_id \in DOMAIN datasets
    /\ \E i \in DOMAIN documents :
          /\ documents[i].id = last.document_id
          /\ documents[i].dataset_id # last.dataset_id
    /\ queue = <<>>

\* C10: when the runner rejects a hand-off during syncDataset, the hand-off of
\* every document of the dataset is still attempted and the operation returns
\* a report instead of the failure.  (No action of SpecSync changes the
\* documents.)
C10_EveryEnqueueAttempted ==
    (last.op = "syncDataset" /\ last.rejected > 0) =>
        /\ last.attempts = Cardinality(DocsOf(last.dataset_id))
        /\ last.result # DispatchFailure

\* How many requests for the pair the queue holds.
Count(q, pair) == Cardinality({ k \in DOMAIN q : q[k] = pair })

\* C16: every successful syncDocument adds exactly one request for its
\* (dataset_id, document_id) to the queue, however many requests for that pair
\* the queue holds already, and every successful syncDataset adds exactly one
\* request for each document of the dataset; so k successful calls leave k
\* requests.
C16_DuplicateCallsDuplicateRequests ==
    [][/\ (SyncDocumentStep /\ last'.result = "ok") =>
            LET pair == <<last'.dataset_id, last'.document_id>>
            IN  /\ Grown
                /\ Len(queue') = Len(queue) + 1
                /\ Count(queue', pair) = Count(queue, pair) + 1
       /\ (/\ SyncDatasetStep
           /\ last'.dataset_id \in DOMAIN datasets
           /\ last'.result = "ok") =>
            /\ Grown
            /\ \A i \in DocsOf(last'.dataset_id) :
                  LET pair == <<last'.dataset_id, documents[i].id>>
                  IN  Count(queue', pair) = Count(queue, pair) + 1]_vars

\* The queue holds three requests for one pair: one of a syncDataset of its
\* dataset and, after it, those of two syncDocument calls.
C16_Witness ==
    /\ last.op = "syncDocument"
    /\ last.result = "ok"
    /\ Len(queue) = 3
    /\ Count(queue, <<last.dataset_id, last.document_id>>) = 3
    /\ Cardinality(DocsOf(last.dataset_id)) = 1

(***************************************************************************)
(* All the handlers on one store: one binding, one document.               *)
(***************************************************************************)
FrameBindingOptions ==
    { s \in BindingShapes : s.tenant_id = "t1" /\ s.workspace_id = "w1" } \X BOOLEAN

FrameDocShapes ==
    { s \in DocShapes : s.tenant_id = "t1" /\ s.enabled /\ s.notion_page_id = "p1" }

InitFrame ==
    /\ bindings \in { t \in BindingTables(FrameBindingOptions) : Len(t) = 1 }
    /\ documents \in { t \in DocTables(FrameDocShapes) : Len(t) = 1 }
    /\ now = 0
    /\ queue = <<>>
    /\ last = NoRequest
    /\ req = [r \in Slots |-> IdleRequest]
    /\ seen = <<>>

NextFrame ==
    \/ Tick
    \/ \E tenant \in Tenants, binding_id \in RequestBindingIds, action \in Actions :
          Patch(tenant, binding_id, action)
    \/ \E tenant \in Tenants : ListIntegrations(tenant)
    \/ \E tenant \in Tenants, dataset_id \in RequestDatasetIds \cup {""} :
          ListImportablePages(tenant, dataset_id)
    \/ \E dataset_id \in RequestDatasetIds, accepted \in 0..MaxDocs :
          SyncDataset(dataset_id, accepted)
    \/ \E dataset_id \in RequestDatasetIds, document_id \in RequestDocIds,
          accepted \in 0..1 :
          SyncDocument(dataset_id, document_id, accepted)

SpecFrame == InitFrame /\ [][NextFrame]_vars

\* C17: a step that changes a row of the bindings is a successful enable or
\* disable request; a listIntegrations, listImportablePages, syncDataset or
\* syncDocument request leaves every binding as stored, and no step changes a
\* document.
C17_OnlyTransitionsWriteBindings ==
    [][/\ documents' = documents
       /\ bindings' # bindings =>
             \E action \in {"enable", "disable"} :
                PatchStep(action) /\ last'.result = "success"
       /\ (/\ last' # last
           /\ last'.op \in {"listIntegrations", "listImportablePages",
                            "syncDataset", "syncDocument"}) =>
             bindings' = bindings]_vars

\* A request was queued by a syncDocument on a store whose binding a
\* transition had stamped before.
C17_Witness ==
    /\ last.op = "syncDocument"
    /\ last.result = "ok"
    /\ queue # <<>>
    /\ documents # <<>>
    /\ \E i \in DOMAIN bindings : bindings[i].updated_at > 0

(***************************************************************************)
(* DataSourceNotionApi.get: the preview of a page's content                *)
(***************************************************************************)
RequestWorkspaceIds == {"w0", "w1", "w2"}
PageTypes == {"page", "database"}
NoFetch == [notion_access_token |-> <<>>]
LoadFailure == "LoadFailure"

\* The JSON text of a string element of the source_info column, which the
\* query compares, and f'"{workspace_id}"', which it is compared with.
JsonText(value) == <<"\"", value, "\"">>
Quoted(workspace_id) == <<"\"", workspace_id, "\"">>

\* Mutant: the disabled == False condition is missing.
PreviewBindingAnyDisabled(tenant, workspace_id) ==
    LET hits == SelectSeq(bindings, LAMBDA r :
                    /\ r.tenant_id = tenant
                    /\ r.provider = "notion"
                    /\ JsonText(r.workspace_id) = Quoted(workspace_id))
    IN  IF Len(hits) = 0 THEN NoRow ELSE hits[1]

\* DataSourceBinding.query.filter(db.and_(tenant_id == current tenant,
\* provider == 'notion', disabled == False,
\* source_info['workspace_id'] == f'"{workspace_id}"')).first()
PreviewBinding(tenant, workspace_id) ==
    LET hits == SelectSeq(bindings, LAMBDA r :
                    /\ r.tenant_id = tenant
                    /\ r.provider = "notion"
                    /\ r.disabled = FALSE
                    /\ JsonText(r.workspace_id) = Quoted(workspace_id))
    IN  IF Len(hits) = 0 THEN NoRow ELSE hits[1]

\* NotionLoader(...): what the loader is given to fetch the content with.
NotionLoader(binding, workspace_id, page_id, page_type) ==
    [notion_access_token |-> binding.access_token,
     notion_workspace_id |-> workspace_id,
     notion_obj_id |-> page_id,
     notion_page_type |-> page_type]

\* The whole handler; outcome is what loader.load() comes to: the content
\* ("ok") or an exception of the loader, which leaves the handler.
Preview(tenant, workspace_id, page_id, page_type, outcome) ==
    LET data_source_binding == PreviewBinding(tenant, workspace_id)
    IN  /\ IF data_source_binding = NoRow
           THEN /\ outcome = "ok"
                /\ last' = [op |-> "preview", tenant |-> tenant,
                            workspace_id |-> workspace_id, page_id |-> page_id,
                            page_type |-> page_type, result |-> NotFound,
                            fetch |-> NoFetch]
           ELSE last' = [op |-> "preview", tenant |-> tenant,
                         workspace_id |-> workspace_id, page_id |-> page_id,
                         page_type |-> page_type, result |-> outcome,
                         fetch |-> NotionLoader(data_source_binding, workspace_id,
                                                page_id, page_type)]
        /\ UNCHANGED <<bindings, documents, now, queue, req, seen>>

InitPreview ==
    /\ bindings \in BindingTables(BindingShapes \X BOOLEAN)
    /\ documents = <<>>
    /\ now = 0
    /\ queue = <<>>
    /\ last = NoRequest
    /\ req = [r \in Slots |-> IdleRequest]
    /\ seen = <<>>

NextPreview ==
    \E tenant \in Tenants, workspace_id \in RequestWorkspaceIds,
       page_id \in PageIds, page_type \in PageTypes,
       outcome \in {"ok", LoadFailure} :
        Preview(tenant, workspace_id, page_id, page_type, outcome)

SpecPreview == InitPreview /\ [][NextPreview]_vars

\* The bindings whose token a preview of the workspace by the tenant may use.
Usable(tenant, workspace_id) ==
    { i \in DOMAIN bindings :
        /\ bindings[i].tenant_id = tenant
        /\ bindings[i].provider = "notion"
        /\ ~bindings[i].disabled
        /\ bindings[i].workspace_id = workspace_id }

\* C20: a preview hands the loader an access token only when the requesting
\* tenant has a non-disabled notion binding for the requested workspace, and
\* then the token of such a binding; otherwise it fails with NotFound and
\* nothing is fetched.  (No action of SpecPreview changes the bindings.)
C20_TokenOnlyForOwnEnabledBinding ==
    last.op = "preview" =>
        IF Usable(last.tenant, last.workspace_id) = {}
        THEN last.result = NotFound /\ last.fetch = NoFetch
        ELSE /\ last.result # NotFound
             /\ \E i \in Usable(last.tenant, last.workspace_id) :
                   last.fetch.notion_access_token = bindings[i].access_token
             /\ last.fetch.notion_workspace_id = last.workspace_id

\* A preview was refused while the store holds a disabled binding of the
\* tenant for the workspace and an enabled one of another tenant for it.
C20_Witness ==
    /\ last.op = "preview"
    /\ last.result = NotFound
    /\ \E i, j \in DOMAIN bindings :
          /\ bindings[i].tenant_id = last.tenant
          /\ bindings[i].provider = "notion"
          /\ bindings[i].workspace_id = last.workspace_id
          /\ bindings[i].disabled
          /\ bindings[j].tenant_id # last.tenant
          /\ bindings[j].provider = "notion"
          /\ bindings[j].workspace_id = last.workspace_id
          /\ ~bindings[j].disabled

====
